---- MODULE Spec2Model ----
(***************************************************************************)
(* The chat store of the two MoviePilot plugins ChatCenter                  *)
(* (plugins.v2/chat_center) and ChatroomEnhanced                            *)
(* (plugins.v2/chatroom_enhanced): a bounded message log, a presence map    *)
(* with lazy expiry, and load/save of the log to a JSON file.               *)
(*                                                                          *)
(* One state machine models one plugin instance in one process; the         *)
(* variable plugin says which of the two classes it is.  The clock now is   *)
(* time.time() in whole seconds; one API call reads it once.  The strings   *)
(* of the response envelopes are ASCII renderings of the source's texts.    *)
(***************************************************************************)
EXTENDS Integers, Sequences, FiniteSets, TLC

VARIABLES
    plugin,           \* the class of the instance: "ChatCenter" | "ChatroomEnhanced"
    _chat_data_path,  \* None until init_plugin has run
    _messages,        \* the Python value bound to self._messages
    _online_users,    \* dict username -> last active time (a function)
    _max_messages,
    _online_timeout,
    file,             \* the backing file: [exists, text], text a JSON token sequence
    now,              \* the clock, time.time() in seconds
    call,             \* the last call made and how it went (observation)
    resp,             \* the envelope that call returned (observation)
    posted,           \* the messages posted since the log was last empty (history)
    touched,          \* username -> time of its last presence touch (history)
    history,          \* what the saves and the presence touches did so far (history)
    threads           \* the send_message calls in progress, where the host runs
                      \* requests on several threads: thread -> its position and locals

vars == <<call, plugin, _chat_data_path, _messages, _online_users, _max_messages,
          _online_timeout, file, now, posted, touched, resp, threads, history>>

----------------------------------------------------------------------------
(* Bounds of the exploration *)

\* the clock runs from 0 to MaxTime where presence is explored, and from 0 to
\* MaxLogTime where the log is
MaxTime == 2
MaxLogTime == 1
\* no post is explored once the list, or the history of posts, has this length
MaxLen == 3

(* Program constants *)
DefaultMaxMessages == 100
DefaultOnlineTimeout == 300

(* Python's None, and the marker of an argument the caller left out *)
None == "<None>"
Omitted == "<omitted>"

Plugins == {"ChatCenter", "ChatroomEnhanced"}

\* as Falsy, with `x is None` for `not x`
Falsy_is_none(x) == x = None

\* Python truthiness of a string-or-None argument: `not x`
Falsy(x) == x = None \/ x = ""

----------------------------------------------------------------------------
(* Python values that self._messages can be bound to.  A list carries its   *)
(* items; of a dict, str, int or None only the type is kept.                *)

PyList(items) == [kind |-> "list", items |-> items]
PyOther(kind) == [kind |-> kind, items |-> <<>>]

\* len(x) raises TypeError for an int and for None
HasLen(v) == v.kind \in {"list", "dict", "str"}

\* lst[start:] as Python evaluates it: a negative start counts from the end,
\* and -0 is 0, the whole list
PySliceFrom(lst, start) ==
    LET n == Len(lst)
        i == IF start < 0 THEN (IF n + start > 0 THEN n + start ELSE 0)
             ELSE (IF start < n THEN start ELSE n)
    IN SubSeq(lst, i + 1, n)

----------------------------------------------------------------------------
(* JSON text as a sequence of tokens *)

P(s) == [t |-> "punct", s |-> s, n |-> 0]
K(s) == [t |-> "key", s |-> s, n |-> 0]
S(s) == [t |-> "str", s |-> s, n |-> 0]
N(n) == [t |-> "num", s |-> "", n |-> n]

\* as dump_message, leaving the type member out
dump_message_without_type(m) ==
    << P("{"), K("id"), N(m.id), K("username"), S(m.username),
       K("content"), S(m.content), K("time"), S(m.time), P("}") >>

dump_message(m) ==
    << P("{"), K("id"), N(m.id), K("username"), S(m.username),
       K("content"), S(m.content), K("time"), S(m.time),
       K("type"), S(m.type), P("}") >>

RECURSIVE dump_items(_)
dump_items(items) ==
    IF items = <<>> THEN <<>>
    ELSE dump_message(Head(items)) \o dump_items(Tail(items))

\* json.dump(obj, f): the text written for a value
json_dump(v) ==
    CASE v.kind = "list" -> <<P("[")>> \o dump_items(v.items) \o <<P("]")>>
      [] v.kind = "dict" -> <<P("{"), P("}")>>
      [] v.kind = "str" -> <<S("x")>>
      [] v.kind = "int" -> <<N(5)>>
      [] OTHER -> <<P("null")>>

TokVal(tok) == IF tok.t = "num" THEN tok.n ELSE tok.s

\* the members of an object: key/value pairs
IsMembers(toks) ==
    /\ Len(toks) % 2 = 0
    /\ \A i \in 1..Len(toks) :
          IF i % 2 = 1 THEN toks[i].t = "key" ELSE toks[i].t \in {"str", "num"}

\* the dict of an object's members; of a repeated key the last value stays
parse_members(toks) ==
    LET idx == {i \in 1..Len(toks) : i % 2 = 1} IN
    [k \in {toks[i].s : i \in idx} |->
        LET last == CHOOSE i \in idx :
                       toks[i].s = k /\ \A j \in idx : toks[j].s = k => j <= i
        IN TokVal(toks[last + 1])]

\* position of the first closing brace at or after i, 0 when there is none
RECURSIVE first_close(_, _)
first_close(toks, i) ==
    IF i > Len(toks) THEN 0
    ELSE IF toks[i] = P("}") THEN i
    ELSE first_close(toks, i + 1)

\* the elements of an array: objects one after the other
RECURSIVE parse_items(_)
parse_items(toks) ==
    IF toks = <<>> THEN [ok |-> TRUE, items |-> <<>>]
    ELSE LET close == first_close(toks, 1)
             members == SubSeq(toks, 2, close - 1)
             rest == parse_items(SubSeq(toks, close + 1, Len(toks)))
         IN IF Head(toks) = P("{") /\ close > 0 /\ IsMembers(members) /\ rest.ok
            THEN [ok |-> TRUE, items |-> <<parse_members(members)>> \o rest.items]
            ELSE [ok |-> FALSE, items |-> <<>>]

\* json.load(f): [ok |-> FALSE] stands for json.JSONDecodeError
json_load(text) ==
    LET n == Len(text)
        failed == [ok |-> FALSE, value |-> PyOther("NoneType")]
        array == parse_items(SubSeq(text, 2, n - 1))
    IN  IF n = 0 THEN failed
        ELSE IF text = <<P("null")>> THEN [ok |-> TRUE, value |-> PyOther("NoneType")]
        ELSE IF n = 1 /\ text[1].t = "num" THEN [ok |-> TRUE, value |-> PyOther("int")]
        ELSE IF n = 1 /\ text[1].t = "str" THEN [ok |-> TRUE, value |-> PyOther("str")]
        ELSE IF text[1] = P("{") /\ text[n] = P("}") /\ IsMembers(SubSeq(text, 2, n - 1))
             THEN [ok |-> TRUE, value |-> PyOther("dict")]
        ELSE IF text[1] = P("[") /\ text[n] = P("]") /\ n >= 2 /\ array.ok
             THEN [ok |-> TRUE, value |-> PyList(array.items)]
        ELSE failed

----------------------------------------------------------------------------
(* The clock and what the code derives from it *)

\* int(time.time() * 1000)
message_id(t) == t * 1000

\* the texts of the first minute of the epoch
TimeTexts ==
    [t \in 0..59 |-> "1970-01-01 00:00:" \o (IF t < 10 THEN "0" ELSE "") \o ToString(t)]

\* datetime.now().strftime("%Y-%m-%d %H:%M:%S")
strftime(t) == TimeTexts[t]

----------------------------------------------------------------------------
(* The configuration dict handed to init_plugin.  A value is None, an int   *)
(* or a str; a dict is a function from the keys it holds.                   *)

CfgNone == [t |-> "none", n |-> 0, s |-> ""]
CfgInt(n) == [t |-> "int", n |-> n, s |-> ""]
CfgStr(s) == [t |-> "str", n |-> 0, s |-> s]

\* every dict that holds some of the two keys, with values from the given
\* sets; the empty dict also stands for config=None
Configs(max_values, timeout_values) ==
    { c \in UNION { [keys -> max_values \cup timeout_values] :
                    keys \in SUBSET {"max_messages", "online_timeout"} } :
        /\ "max_messages" \in DOMAIN c => c["max_messages"] \in max_values
        /\ "online_timeout" \in DOMAIN c => c["online_timeout"] \in timeout_values }

\* config.get(key)
config_get(config, key) == IF key \in DOMAIN config THEN config[key] ELSE CfgNone

\* truth value of a configuration value
Truthy(v) ==
    CASE v.t = "int" -> v.n # 0
      [] v.t = "str" -> v.s # ""
      [] OTHER -> FALSE

\* the integers whose decimal text int() is asked to read
ParseRange == -9..9

DecimalText == [n \in ParseRange |-> ToString(n)]

\* int(v) does not raise
IntParses(v) ==
    \/ v.t = "int"
    \/ v.t = "str" /\ \E n \in ParseRange : DecimalText[n] = v.s

\* int(v)
py_int(v) ==
    IF v.t = "int" THEN v.n ELSE CHOOSE n \in ParseRange : DecimalText[n] = v.s

\* init_plugin's treatment of one configuration key
config_value(config, key, current) ==
    IF DOMAIN config # {} /\ Truthy(config_get(config, key))
          /\ IntParses(config_get(config, key))
    THEN py_int(config_get(config, key))
    ELSE current

----------------------------------------------------------------------------
(* The backing file *)

NoFile == [exists |-> FALSE, text |-> <<>>]
FileOf(text) == [exists |-> TRUE, text |-> text]

\* os.path.join(settings.CONFIG_PATH, ...)
DataPath(p) ==
    IF p = "ChatCenter" THEN "chat_center_data.json" ELSE "chatroom_enhanced_data.json"

\* as load_messages, with an attempt to recover a text that lacks its closing
\* bracket
load_messages_recovering(p, f, read_ok) ==
    IF ~f.exists \/ ~read_ok THEN PyList(<<>>)
    ELSE LET r == json_load(f.text)
             again == json_load(f.text \o <<P("]")>>)
         IN IF r.ok THEN r.value
            ELSE IF again.ok THEN again.value
            ELSE PyList(<<>>)

\* _load_messages: the value self._messages is left bound to.  read_ok is
\* whether opening and reading the file succeeds.
load_messages(p, f, read_ok) ==
    IF ~f.exists THEN PyList(<<>>)
    ELSE IF ~read_ok THEN PyList(<<>>)
    ELSE LET r == json_load(f.text) IN
         IF ~r.ok THEN PyList(<<>>)
         ELSE IF p = "ChatroomEnhanced" /\ ~HasLen(r.value) THEN PyList(<<>>)
         ELSE r.value

\* How a save can go: the write succeeds; open() fails and the file is not
\* touched; open() has truncated the file and the write then fails, leaving
\* a strict prefix of the text (here none of it, or all but the last token).
SaveOutcomes ==
    { [io |-> "ok", keep |-> "all"], [io |-> "open_fail", keep |-> "old"],
      [io |-> "write_fail", keep |-> "nothing"],
      [io |-> "write_fail", keep |-> "all_but_last"] }

\* as save_messages, writing nothing when the list is empty
save_messages_skip_empty(v, f, outcome) ==
    IF v.items = <<>> THEN f
    ELSE IF outcome.io = "ok" THEN FileOf(json_dump(v))
    ELSE IF outcome.io = "open_fail" THEN f
    ELSE IF outcome.keep = "nothing" THEN FileOf(<<>>)
    ELSE FileOf(SubSeq(json_dump(v), 1, Len(json_dump(v)) - 1))

\* as save_messages, with the file opened in mode 'a'
save_messages_append_mode(v, f, outcome) ==
    IF outcome.io = "ok" THEN FileOf(f.text \o json_dump(v))
    ELSE IF outcome.io = "open_fail" THEN f
    ELSE IF outcome.keep = "nothing" THEN FileOf(f.text)
    ELSE FileOf(f.text \o SubSeq(json_dump(v), 1, Len(json_dump(v)) - 1))

\* as save_messages, replacing the file only by a complete text
save_messages_atomic(v, f, outcome) ==
    IF outcome.io = "ok" THEN FileOf(json_dump(v)) ELSE f

\* _save_messages: the file after saving value v
save_messages(v, f, outcome) ==
    LET text == json_dump(v) IN
    CASE outcome.io = "ok" -> FileOf(text)
      [] outcome.io = "open_fail" -> f
      [] OTHER -> IF outcome.keep = "nothing" THEN FileOf(<<>>)
                  ELSE FileOf(SubSeq(text, 1, Len(text) - 1))

----------------------------------------------------------------------------
(* Presence *)

\* as update_user_online, binding a new dict instead of setting one key
update_user_online_new_dict(users, username, t) ==
    IF Falsy(username) THEN users ELSE [u \in {username} |-> t]

\* as update_user_online, dropping the expired entries while it is at it
update_user_online_evicting(users, username, t) ==
    IF Falsy(username) THEN users
    ELSE [u \in {username} \cup {v \in DOMAIN users : t - users[v] <= _online_timeout} |->
            IF u = username THEN t ELSE users[u]]

\* as update_user_online, keeping the timestamp of a user it already holds
update_user_online_keep_first(users, username, t) ==
    IF Falsy(username) \/ username \in DOMAIN users THEN users
    ELSE [u \in DOMAIN users \cup {username} |-> IF u = username THEN t ELSE users[u]]

\* _update_user_online
update_user_online(users, username, t) ==
    IF Falsy(username) THEN users
    ELSE [u \in DOMAIN users \cup {username} |-> IF u = username THEN t ELSE users[u]]

\* as offline_users, with >= for >
offline_users_at_timeout(users, t, timeout) == {u \in DOMAIN users : t - users[u] >= timeout}

\* the users _clean_offline_users collects in offline_users
offline_users(users, t, timeout) == {u \in DOMAIN users : t - users[u] > timeout}

\* as clean_offline_users, popping nothing
clean_offline_users_pop_nothing(users, t, timeout) == users

\* _clean_offline_users
clean_offline_users(users, t, timeout) ==
    [u \in DOMAIN users \ offline_users(users, t, timeout) |-> users[u]]

----------------------------------------------------------------------------
(* Observation of calls *)

NoResponse == [code |-> -1, message |-> ""]

\* which operation ran last, how its file access went ("none": it made none),
\* the exception it raised ("": none) and the user whose presence it touched
\* (None: it touched none)
Call(op, io, raised, user) == [op |-> op, io |-> io, raised |-> raised, user |-> user]

Idle == Call("idle", "none", "", None)

\* The history of posts: seq holds the messages posted since the log was
\* last empty, valid says that it is known (the log was empty at some point
\* since the last load).  A specification that does not need the history
\* leaves track FALSE, and then nothing is recorded.
NoHistory(track) == [track |-> track, valid |-> FALSE, seq |-> <<>>]
EmptyHistory(track) == [track |-> track, valid |-> track, seq |-> <<>>]

----------------------------------------------------------------------------
(* The history of saves and touches.  track names what is recorded:        *)
(* "saves" and "touches"; a specification that needs neither leaves it      *)
(* empty, and then history never changes.                                   *)
(* save: how the saves since the last load went: "none" (no save yet),      *)
(*   "saved" (the last one succeeded), "open_failed" (the last ones failed, *)
(*   each at open), "write_failed" (the last ones failed, one of them after *)
(*   open had truncated the file), "recovered" (the last one succeeded, the *)
(*   ones before it had failed).                                            *)
(* older: what _load_messages made of the file before the first of the      *)
(*   failed saves.                                                          *)
(* last: username -> time of its last touch.  since: username -> time of    *)
(*   the first touch of its current run of touches, a run ending when a     *)
(*   touch comes more than online_timeout after the one before.             *)

Tracking(track) ==
    [track |-> track, save |-> "none", older |-> PyList(<<>>),
     since |-> <<>>, last |-> <<>>]

SaveFailed(h) == h.save \in {"open_failed", "write_failed"}

\* the history after _save_messages went as outcome says; loaded is what
\* _load_messages made of the file before this save
save_history(h, outcome, loaded) ==
    IF "saves" \notin h.track THEN h
    ELSE [h EXCEPT
            !.save = IF outcome.io = "ok"
                     THEN (IF SaveFailed(h) THEN "recovered" ELSE "saved")
                     ELSE IF outcome.io = "write_fail" \/ h.save = "write_failed"
                     THEN "write_failed"
                     ELSE "open_failed",
            !.older = IF SaveFailed(h) THEN h.older ELSE loaded]

\* the history after _load_messages replaced the list
load_history(h) == [h EXCEPT !.save = "none", !.older = PyList(<<>>)]

\* the history after _update_user_online(username) at time t
touch_history(h, username, t, timeout) ==
    IF "touches" \notin h.track \/ Falsy(username) THEN h
    ELSE LET same_run == username \in DOMAIN h.last /\ t - h.last[username] <= timeout
             start == IF same_run THEN h.since[username] ELSE t
         IN [h EXCEPT
               !.last = [u \in DOMAIN h.last \cup {username} |->
                           IF u = username THEN t ELSE h.last[u]],
               !.since = [u \in DOMAIN h.since \cup {username} |->
                            IF u = username THEN start ELSE h.since[u]]]

----------------------------------------------------------------------------
(* The request threads of the host.  A thread that is not inside           *)
(* send_message is idle; the serial operations below run with every thread  *)
(* idle.                                                                    *)

Threads == {1, 2}

NoMessage == [id |-> -1, username |-> "", content |-> "", time |-> "", type |-> ""]

\* pc: the statement the thread is at; m, slice: its locals; code: what it
\* returned.  order: its append was the order-th of the appends in progress,
\* raced: it appended while another thread held a slice it had not yet
\* stored (both history).
IdleThread ==
    [pc |-> "idle", m |-> NoMessage, slice |-> <<>>, code |-> -1,
     order |-> 0, raced |-> FALSE]

NoThreads == [t \in Threads |-> IdleThread]

----------------------------------------------------------------------------
(* Initial state: the class attributes of a freshly imported plugin, and a  *)
(* backing file left by an earlier run (or by something else).              *)

OldMessages ==
    << [id |-> -2000, username |-> "alice", content |-> "old", time |-> "1969-12-31 23:59:58",
        type |-> "text"],
       [id |-> -1000, username |-> "bob", content |-> "old", time |-> "1969-12-31 23:59:59",
        type |-> "text"] >>

InitFiles ==
    { NoFile,
      FileOf(<<>>),
      FileOf(json_dump(PyList(<<>>))),
      FileOf(json_dump(PyList(OldMessages))),
      FileOf(json_dump(PyOther("dict"))),
      FileOf(json_dump(PyOther("str"))),
      FileOf(json_dump(PyOther("int"))),
      FileOf(json_dump(PyOther("NoneType"))) }

InitTracking(files, track, tracked) ==
    /\ plugin \in Plugins
    /\ _chat_data_path = None
    /\ _messages = PyList(<<>>)
    /\ _online_users = <<>>
    /\ _max_messages = DefaultMaxMessages
    /\ _online_timeout = DefaultOnlineTimeout
    /\ file \in files
    /\ now = 0
    /\ call = Idle
    /\ resp = NoResponse
    /\ posted = NoHistory(track)
    /\ touched = <<>>
    /\ threads = NoThreads
    /\ history = Tracking(tracked)

InitWith(files, track) == InitTracking(files, track, {})

----------------------------------------------------------------------------
(* Operations *)

\* init_plugin(config); the host calls it at start-up and again whenever
\* the plugin's configuration is saved
init_plugin(config, read_ok) ==
    LET loaded == load_messages(plugin, file, read_ok) IN
    /\ _chat_data_path' = DataPath(plugin)
    /\ _max_messages' = config_value(config, "max_messages", _max_messages)
    /\ _online_timeout' = config_value(config, "online_timeout", _online_timeout)
    /\ _messages' = loaded
    /\ posted' = IF loaded = PyList(<<>>) THEN EmptyHistory(posted.track)
                 ELSE NoHistory(posted.track)
    /\ call' = Call("init_plugin", IF file.exists /\ ~read_ok THEN "read_fail" ELSE "none",
                     "", None)
    /\ resp' = NoResponse
    /\ history' = load_history(history)
    /\ UNCHANGED <<plugin, _online_users, file, now, touched, threads>>

\* get_messages
get_messages ==
    /\ _chat_data_path # None
    /\ call' = Call("get_messages", "none", "", None)
    /\ resp' = [code |-> 0, message |-> "ok", data |-> _messages]
    /\ UNCHANGED <<plugin, _chat_data_path, _messages, _online_users, _max_messages,
                   _online_timeout, file, now, posted, touched, threads, history>>

\* as new_message, with the type fixed
new_message_text_only(username, content, type, t) ==
    [id |-> message_id(t), username |-> username, content |-> content,
     time |-> strftime(t), type |-> "text"]

\* the message send_message builds
new_message(username, content, type, t) ==
    [id |-> message_id(t), username |-> username, content |-> content,
     time |-> strftime(t), type |-> IF type = Omitted THEN "text" ELSE type]

\* as appended_messages, keeping the head of the list instead of its tail
appended_messages_keep_head(items, m, max) ==
    LET all == Append(items, m) IN
    IF Len(all) > max THEN SubSeq(all, 1, max) ELSE all

\* as appended_messages, inserting at the head of the list
appended_messages_prepend(items, m, max) ==
    LET all == <<m>> \o items IN
    IF Len(all) > max THEN PySliceFrom(all, -max) ELSE all

\* the list send_message leaves in self._messages: append, then keep the tail
appended_messages(items, m, max) ==
    LET all == Append(items, m) IN
    IF Len(all) > max THEN PySliceFrom(all, -max) ELSE all

\* as send_message_valid, testing the username alone
send_message_valid_username_only(username, content) == ~Falsy(username)

\* send_message's test of its arguments: `not username or not content` is false
send_message_valid(username, content) == ~(Falsy(username) \/ Falsy(content))

\* as send_message, saving the list before it is truncated
send_message_save_first(username, content, type, outcome) ==
    /\ _chat_data_path # None
    /\ IF ~send_message_valid(username, content)
       THEN /\ call' = Call("send_message", "none", "", None)
            /\ resp' = [code |-> 1, message |-> "username and content must not be empty"]
            /\ UNCHANGED <<_messages, _online_users, file, posted, touched, history>>
       ELSE IF _messages.kind # "list"
       THEN \* self._messages.append raises AttributeError after the presence touch
            /\ call' = Call("send_message", "none", "AttributeError", username)
            /\ resp' = NoResponse
            /\ _online_users' = update_user_online(_online_users, username, now)
            /\ touched' = update_user_online(touched, username, now)
            /\ history' = touch_history(history, username, now, _online_timeout)
            /\ UNCHANGED <<_messages, file, posted>>
       ELSE LET m == new_message(username, content, type, now)
                kept == PyList(appended_messages(_messages.items, m, _max_messages))
            IN  /\ Len(_messages.items) < MaxLen
                /\ Len(posted.seq) < MaxLen
                /\ _online_users' = update_user_online(_online_users, username, now)
                /\ touched' = update_user_online(touched, username, now)
                /\ _messages' = kept
                /\ file' = save_messages(PyList(Append(_messages.items, m)), file, outcome)
                /\ posted' = IF posted.valid
                             THEN [posted EXCEPT !.seq = Append(posted.seq, m)]
                             ELSE posted
                /\ call' = Call("send_message", outcome.io, "", username)
                /\ history' = save_history(
                       touch_history(history, username, now, _online_timeout),
                       outcome, load_messages(plugin, file, TRUE))
                /\ resp' = [code |-> 0, message |-> "sent", data |-> m]
    /\ UNCHANGED <<plugin, _chat_data_path, _max_messages, _online_timeout, now, threads>>

\* send_message(username, content, type)
send_message(username, content, type, outcome) ==
    /\ _chat_data_path # None
    /\ IF ~send_message_valid(username, content)
       THEN /\ call' = Call("send_message", "none", "", None)
            /\ resp' = [code |-> 1, message |-> "username and content must not be empty"]
            /\ UNCHANGED <<_messages, _online_users, file, posted, touched, history>>
       ELSE IF _messages.kind # "list"
       THEN \* self._messages.append raises AttributeError after the presence touch
            /\ call' = Call("send_message", "none", "AttributeError", username)
            /\ resp' = NoResponse
            /\ _online_users' = update_user_online(_online_users, username, now)
            /\ touched' = update_user_online(touched, username, now)
            /\ history' = touch_history(history, username, now, _online_timeout)
            /\ UNCHANGED <<_messages, file, posted>>
       ELSE LET m == new_message(username, content, type, now)
                kept == PyList(appended_messages(_messages.items, m, _max_messages))
            IN  /\ Len(_messages.items) < MaxLen
                /\ Len(posted.seq) < MaxLen
                /\ _online_users' = update_user_online(_online_users, username, now)
                /\ touched' = update_user_online(touched, username, now)
                /\ _messages' = kept
                /\ file' = save_messages(kept, file, outcome)
                /\ posted' = IF posted.valid
                             THEN [posted EXCEPT !.seq = Append(posted.seq, m)]
                             ELSE posted
                /\ call' = Call("send_message", outcome.io, "", username)
                /\ history' = save_history(
                       touch_history(history, username, now, _online_timeout),
                       outcome, load_messages(plugin, file, TRUE))
                /\ resp' = [code |-> 0, message |-> "sent", data |-> m]
    /\ UNCHANGED <<plugin, _chat_data_path, _max_messages, _online_timeout, now, threads>>

\* get_online_users
get_online_users ==
    LET cleaned == clean_offline_users(_online_users, now, _online_timeout) IN
    /\ _chat_data_path # None
    /\ _online_users' = cleaned
    /\ call' = Call("get_online_users", "none", "", None)
    /\ resp' = [code |-> 0, message |-> "ok", data |-> DOMAIN cleaned]
    /\ UNCHANGED <<plugin, _chat_data_path, _messages, _max_messages, _online_timeout,
                   file, now, posted, touched, threads, history>>

\* user_heartbeat(username)
user_heartbeat(username) ==
    /\ _chat_data_path # None
    /\ IF Falsy(username)
       THEN /\ resp' = [code |-> 1, message |-> "username must not be empty"]
            /\ call' = Call("user_heartbeat", "none", "", None)
            /\ UNCHANGED <<_online_users, touched, history>>
       ELSE /\ resp' = [code |-> 0, message |-> "ok"]
            /\ call' = Call("user_heartbeat", "none", "", username)
            /\ history' = touch_history(history, username, now, _online_timeout)
            /\ _online_users' = update_user_online(_online_users, username, now)
            /\ touched' = update_user_online(touched, username, now)
    /\ UNCHANGED <<plugin, _chat_data_path, _messages, _max_messages, _online_timeout,
                   file, now, posted, threads>>

\* as clear_messages, emptying the presence map with the list
clear_messages_and_presence(outcome) ==
    /\ _chat_data_path # None
    /\ _messages' = PyList(<<>>)
    /\ _online_users' = <<>>
    /\ file' = save_messages(PyList(<<>>), file, outcome)
    /\ posted' = EmptyHistory(posted.track)
    /\ call' = Call("clear_messages", outcome.io, "", None)
    /\ history' = save_history(history, outcome, load_messages(plugin, file, TRUE))
    /\ resp' = [code |-> 0, message |-> "cleared"]
    /\ UNCHANGED <<plugin, _chat_data_path, _max_messages,
                   _online_timeout, now, touched, threads>>

\* clear_messages
clear_messages(outcome) ==
    /\ _chat_data_path # None
    /\ _messages' = PyList(<<>>)
    /\ file' = save_messages(PyList(<<>>), file, outcome)
    /\ posted' = EmptyHistory(posted.track)
    /\ call' = Call("clear_messages", outcome.io, "", None)
    /\ history' = save_history(history, outcome, load_messages(plugin, file, TRUE))
    /\ resp' = [code |-> 0, message |-> "cleared"]
    /\ UNCHANGED <<plugin, _chat_data_path, _online_users, _max_messages,
                   _online_timeout, now, touched, threads>>

----------------------------------------------------------------------------
(* send_message statement by statement, as a request thread runs it while   *)
(* other threads run theirs.  One step is one statement of lines 125-158;   *)
(* line 149 is two steps, the slice and the store of its result.            *)

\* lines 125-142: the test of the arguments, the presence touch, new_message
send_message_begin(t, username, content, type) ==
    /\ _chat_data_path # None
    /\ threads[t].pc = "idle"
    /\ send_message_valid(username, content)
    /\ _messages.kind = "list"
    /\ _online_users' = update_user_online(_online_users, username, now)
    /\ touched' = update_user_online(touched, username, now)
    /\ threads' = [threads EXCEPT ![t] =
          [@ EXCEPT !.pc = "built", !.m = new_message(username, content, type, now)]]
    /\ history' = touch_history(history, username, now, _online_timeout)
    /\ UNCHANGED <<plugin, _chat_data_path, _messages, _max_messages, _online_timeout,
                   file, now, call, resp, posted>>

\* line 145: self._messages.append(new_message)
send_message_append(t) ==
    /\ threads[t].pc = "built"
    /\ _messages' = PyList(Append(_messages.items, threads[t].m))
    /\ threads' = [threads EXCEPT ![t] =
          [@ EXCEPT !.pc = "appended",
                    !.order = 1 + Cardinality({u \in Threads : threads[u].order > 0}),
                    !.raced = \E u \in Threads \ {t} : threads[u].pc = "sliced"]]
    /\ UNCHANGED <<plugin, _chat_data_path, _online_users, _max_messages,
                   _online_timeout, file, now, call, resp, posted, touched, history>>

\* line 148: if len(self._messages) > self._max_messages
send_message_test(t) ==
    /\ threads[t].pc = "appended"
    /\ threads' = [threads EXCEPT ![t] =
          [@ EXCEPT !.pc = IF Len(_messages.items) > _max_messages
                           THEN "truncate" ELSE "save"]]
    /\ UNCHANGED <<plugin, _chat_data_path, _messages, _online_users, _max_messages,
                   _online_timeout, file, now, call, resp, posted, touched, history>>

\* as send_message_slice, keeping the head of the list
send_message_slice_keep_head(t) ==
    /\ threads[t].pc = "truncate"
    /\ threads' = [threads EXCEPT ![t] =
          [@ EXCEPT !.pc = "sliced",
                    !.slice = SubSeq(_messages.items, 1, _max_messages)]]
    /\ UNCHANGED <<plugin, _chat_data_path, _messages, _online_users, _max_messages,
                   _online_timeout, file, now, call, resp, posted, touched, history>>

\* line 149, right-hand side: self._messages[-self._max_messages:]
send_message_slice(t) ==
    /\ threads[t].pc = "truncate"
    /\ threads' = [threads EXCEPT ![t] =
          [@ EXCEPT !.pc = "sliced",
                    !.slice = PySliceFrom(_messages.items, -_max_messages)]]
    /\ UNCHANGED <<plugin, _chat_data_path, _messages, _online_users, _max_messages,
                   _online_timeout, file, now, call, resp, posted, touched, history>>

\* line 149, the assignment: self._messages = <the slice>
send_message_store(t) ==
    /\ threads[t].pc = "sliced"
    /\ _messages' = PyList(threads[t].slice)
    /\ threads' = [threads EXCEPT ![t] = [@ EXCEPT !.pc = "save"]]
    /\ UNCHANGED <<plugin, _chat_data_path, _online_users, _max_messages,
                   _online_timeout, file, now, call, resp, posted, touched, history>>

\* lines 152-158: self._save_messages() and the return
send_message_save(t, outcome) ==
    /\ threads[t].pc = "save"
    /\ file' = save_messages(_messages, file, outcome)
    /\ threads' = [threads EXCEPT ![t] = [@ EXCEPT !.pc = "done", !.code = 0]]
    /\ call' = Call("send_message", outcome.io, "", threads[t].m.username)
    /\ resp' = [code |-> 0, message |-> "sent", data |-> threads[t].m]
    /\ history' = save_history(history, outcome, load_messages(plugin, file, TRUE))
    /\ UNCHANGED <<plugin, _chat_data_path, _messages, _online_users, _max_messages,
                   _online_timeout, now, posted, touched>>

\* the process ends and the host starts again: every class attribute is back
\* at its default, the file stays
Restart ==
    /\ _chat_data_path # None
    /\ _chat_data_path' = None
    /\ _messages' = PyList(<<>>)
    /\ _online_users' = <<>>
    /\ _max_messages' = DefaultMaxMessages
    /\ _online_timeout' = DefaultOnlineTimeout
    /\ posted' = NoHistory(posted.track)
    /\ touched' = <<>>
    /\ call' = Idle
    /\ resp' = NoResponse
    /\ threads' = NoThreads
    /\ history' = Tracking(history.track)
    /\ UNCHANGED <<plugin, file, now>>

\* a second passes; the last response is no longer the current one
Tick(limit) ==
    /\ now < limit
    /\ now' = now + 1
    /\ call' = Idle
    /\ resp' = NoResponse
    /\ UNCHANGED <<plugin, _chat_data_path, _messages, _online_users, _max_messages,
                   _online_timeout, file, posted, touched, threads, history>>

----------------------------------------------------------------------------
(* Specifications.  Each runs every operation; they differ in the inputs   *)
(* they draw.  SpecLog explores the log: posts at different times,          *)
(* max_messages configured, every save succeeding.  SpecFile explores *)
(* the backing file: every initial file and every way a save can go, one    *)
(* kind of post.  SpecPresence explores the presence map: two users,        *)
(* online_timeout configured, more clock values.                            *)

LogUsernames == {None, "", "alice"}
LogContents == {None, "", "hi"}
LogTypes == {Omitted}
LogConfigs == Configs({CfgInt(1), CfgInt(2), CfgInt(-1), CfgStr("abc")}, {})
LogFiles == {NoFile, FileOf(json_dump(PyList(OldMessages)))}
SaveOk == {[io |-> "ok", keep |-> "all"]}

LogInit == InitWith(LogFiles, TRUE)

LogNext ==
    \/ \E config \in LogConfigs, read_ok \in {TRUE} : init_plugin(config, read_ok)
    \/ get_messages
    \/ \E username \in LogUsernames, content \in LogContents, type \in LogTypes,
          outcome \in SaveOk : send_message(username, content, type, outcome)
    \/ get_online_users
    \/ \E username \in LogUsernames : user_heartbeat(username)
    \/ \E outcome \in SaveOk : clear_messages(outcome)
    \/ Restart
    \/ Tick(MaxLogTime)

SpecLog == LogInit /\ [][LogNext]_vars

FileUsernames == {"", "alice"}
FileContents == {"", "hi"}
FileTypes == {Omitted}
FileConfigs == Configs({CfgInt(2)}, {})

FileInit == InitWith(InitFiles, FALSE)

FileNext ==
    \/ \E config \in FileConfigs, read_ok \in BOOLEAN : init_plugin(config, read_ok)
    \/ get_messages
    \/ \E username \in FileUsernames, content \in FileContents, type \in FileTypes,
          outcome \in SaveOutcomes : send_message(username, content, type, outcome)
    \/ get_online_users
    \/ \E username \in FileUsernames : user_heartbeat(username)
    \/ \E outcome \in SaveOutcomes : clear_messages(outcome)
    \/ Restart
    \/ Tick(MaxLogTime)

SpecFile == FileInit /\ [][FileNext]_vars

PresenceUsernames == {None, "", "alice", "bob"}
PresenceContents == {"hi"}
PresenceTypes == {Omitted, "image"}
\* every configuration sets both keys
PresenceConfigs ==
    { c \in Configs({CfgInt(1)}, {CfgInt(1), CfgInt(-1), CfgStr("0")}) :
        DOMAIN c = {"max_messages", "online_timeout"} }

PresenceInit == InitWith({NoFile}, FALSE)

PresenceNext ==
    \/ \E config \in PresenceConfigs, read_ok \in {TRUE} : init_plugin(config, read_ok)
    \/ get_messages
    \/ \E username \in PresenceUsernames, content \in PresenceContents,
          type \in PresenceTypes, outcome \in SaveOk :
            send_message(username, content, type, outcome)
    \/ get_online_users
    \/ \E username \in PresenceUsernames : user_heartbeat(username)
    \/ \E outcome \in SaveOk : clear_messages(outcome)
    \/ Restart
    \/ Tick(MaxTime)

SpecPresence == PresenceInit /\ [][PresenceNext]_vars

\* SpecInput explores the arguments send_message passes on as they are:
\* fields made of blanks, and types other than the default.
InputUsernames == {" ", "alice"}
InputContents == {" ", "hi"}
InputTypes == {Omitted, "system", "image"}
InputConfigs ==
    { c \in Configs({CfgInt(1)}, {CfgInt(1)}) :
        DOMAIN c = {"max_messages", "online_timeout"} }

InputInit == InitWith({NoFile}, FALSE)

InputNext ==
    \/ \E config \in InputConfigs, read_ok \in {TRUE} : init_plugin(config, read_ok)
    \/ get_messages
    \/ \E username \in InputUsernames, content \in InputContents,
          type \in InputTypes, outcome \in SaveOk :
            send_message(username, content, type, outcome)
    \/ get_online_users
    \/ \E username \in InputUsernames : user_heartbeat(username)
    \/ \E outcome \in SaveOk : clear_messages(outcome)
    \/ Restart
    \/ Tick(MaxLogTime)

SpecInput == InputInit /\ [][InputNext]_vars

\* SpecRace explores two send_message calls on two request threads, their
\* statements interleaved in every order; thread 1 posts as alice, thread 2
\* as bob.
RaceUsernames == <<"alice", "bob">>
RaceConfigs == Configs({CfgInt(1), CfgInt(2)}, {})
RaceFiles == {NoFile, FileOf(json_dump(PyList(OldMessages)))}

RaceInit == InitWith(RaceFiles, FALSE)

RaceNext ==
    \/ \E config \in RaceConfigs, read_ok \in {TRUE} :
          threads = NoThreads /\ init_plugin(config, read_ok)
    \/ \E t \in Threads : send_message_begin(t, RaceUsernames[t], "hi", Omitted)
    \/ \E t \in Threads : send_message_append(t)
    \/ \E t \in Threads : send_message_test(t)
    \/ \E t \in Threads : send_message_slice(t)
    \/ \E t \in Threads : send_message_store(t)
    \/ \E t \in Threads, outcome \in SaveOk : send_message_save(t, outcome)

SpecRace == RaceInit /\ [][RaceNext]_vars

\* SpecSaves explores runs of failed saves and the save that follows them,
\* and records how the saves went.
SavesUsernames == {"alice"}
SavesContents == {"hi"}
SavesTypes == {Omitted}
SavesConfigs == Configs({CfgInt(2)}, {})
SavesFiles == {NoFile, FileOf(json_dump(PyList(OldMessages)))}

SavesInit == InitTracking(SavesFiles, FALSE, {"saves"})

SavesNext ==
    \/ \E config \in SavesConfigs, read_ok \in {TRUE} : init_plugin(config, read_ok)
    \/ get_messages
    \/ \E username \in SavesUsernames, content \in SavesContents, type \in SavesTypes,
          outcome \in SaveOutcomes : send_message(username, content, type, outcome)
    \/ get_online_users
    \/ \E username \in SavesUsernames : user_heartbeat(username)
    \/ \E outcome \in SaveOutcomes : clear_messages(outcome)
    \/ Restart
    \/ Tick(MaxLogTime)

SpecSaves == SavesInit /\ [][SavesNext]_vars

\* SpecTouch explores runs of touches: two users, the time of each user's
\* last touch and of the first touch of its current run recorded, and
\* online_timeout configured (1) or left at what it is ("abc" does not
\* parse).
TouchUsernames == {"alice", "bob"}
TouchContents == {"hi"}
TouchTypes == {Omitted}
TouchConfigs ==
    { c \in Configs({CfgInt(1)}, {CfgInt(1), CfgStr("abc")}) :
        DOMAIN c = {"max_messages", "online_timeout"} }

TouchInit == InitTracking({NoFile}, FALSE, {"touches"})

TouchNext ==
    \/ \E config \in TouchConfigs, read_ok \in {TRUE} : init_plugin(config, read_ok)
    \/ get_messages
    \/ \E username \in TouchUsernames, content \in TouchContents,
          type \in TouchTypes, outcome \in SaveOk :
            send_message(username, content, type, outcome)
    \/ get_online_users
    \/ \E username \in TouchUsernames : user_heartbeat(username)
    \/ \E outcome \in SaveOk : clear_messages(outcome)
    \/ Restart
    \/ Tick(MaxTime)

SpecTouch == TouchInit /\ [][TouchNext]_vars

----------------------------------------------------------------------------
(* Claims *)

\* the last n elements of a sequence of at least n elements
LastN(seq, n) == SubSeq(seq, Len(seq) - n + 1, Len(seq))

\* C1: with max_messages = M >= 1 and a log that started empty, once N > M
\* posts have succeeded get_messages returns exactly the last M posted
\* messages, in the order they were posted.
C1_LastMaxMessages ==
    (/\ call.op = "get_messages"
     /\ posted.valid
     /\ _max_messages >= 1
     /\ Len(posted.seq) > _max_messages)
    => /\ resp.code = 0
       /\ resp.data = PyList(LastN(posted.seq, _max_messages))

C1_Witness ==
    /\ call.op = "get_messages"
    /\ posted.valid
    /\ _max_messages = 2
    /\ Len(posted.seq) = 3
    /\ resp.data.items = <<posted.seq[2], posted.seq[3]>>
    /\ posted.seq[2] # posted.seq[3]

\* C2: once init_plugin has completed, the message list never holds more
\* than max_messages entries (stated here for max_messages >= 1 only: the
\* claim fails even there).
C2_LengthBounded ==
    (/\ _chat_data_path # None
     /\ _max_messages >= 1
     /\ _messages.kind = "list")
    => Len(_messages.items) <= _max_messages

\* C3: send_message with an empty or missing username or content returns
\* code 1 and leaves the message list, the presence map and the backing
\* file as they were; it makes no save.
C3_ValidationFailure ==
    [][ \A username \in LogUsernames, content \in LogContents, type \in LogTypes,
           outcome \in SaveOk :
          (/\ (Falsy(username) \/ Falsy(content))
           /\ send_message(username, content, type, outcome))
          => /\ resp'.code = 1
             /\ "data" \notin DOMAIN resp'
             /\ call'.io = "none"
             /\ UNCHANGED <<_messages, _online_users, file>> ]_vars

C3_Witness ==
    /\ call.op = "send_message"
    /\ resp.code = 1
    /\ _messages.kind = "list"
    /\ _messages.items # <<>>
    /\ DOMAIN _online_users # {}
    /\ file.exists

\* C4: with online_timeout >= 0, a get_online_users made at the instant of
\* a successful user_heartbeat(u), right after it, includes u; and one made
\* more than online_timeout seconds after u's last touch does not.
C4_HeartbeatThenOnline ==
    [][ (get_online_users /\ _online_timeout >= 0)
        => /\ (call.op = "user_heartbeat" /\ call.user # None) => call.user \in resp'.data
           /\ \A u \in DOMAIN touched :
                 now - touched[u] > _online_timeout => u \notin resp'.data ]_vars

C4_Witness ==
    /\ call.op = "get_online_users"
    /\ _online_timeout >= 0
    /\ \E u \in DOMAIN touched : now - touched[u] > _online_timeout /\ u \notin resp.data
    /\ \E u \in DOMAIN touched : touched[u] = now /\ u \in resp.data

\* C5: get_online_users at time now returns exactly the users of the
\* presence map whose age is at most online_timeout, and afterwards the map
\* holds exactly those, with their timestamps.
C5_OnlineExactlyUnexpired ==
    [][ get_online_users
        => /\ resp'.code = 0
           /\ resp'.data = {u \in DOMAIN _online_users :
                               now - _online_users[u] <= _online_timeout}
           /\ DOMAIN _online_users' = resp'.data
           /\ \A u \in resp'.data : _online_users'[u] = _online_users[u] ]_vars

C5_Witness ==
    /\ call.op = "get_online_users"
    /\ \E u \in resp.data : now - _online_users[u] = _online_timeout
    /\ \E u \in DOMAIN touched :
          u \notin DOMAIN _online_users /\ now - touched[u] = _online_timeout + 1

\* C6: after a clear_messages whose save succeeded the list is empty, and
\* loading the backing file again gives the empty list too.
C6_ClearThenReloadEmpty ==
    (call.op = "clear_messages" /\ call.io = "ok")
    => /\ resp.code = 0
       /\ _messages = PyList(<<>>)
       /\ load_messages(plugin, file, TRUE) = PyList(<<>>)

C6_Witness ==
    /\ call.op = "clear_messages"
    /\ call.io = "ok"
    /\ DOMAIN touched # {}
    /\ file = FileOf(<<P("["), P("]")>>)

\* C7: after a successful save, loading the file gives a list equal to the
\* list in memory, in content and order.
C7_SaveLoadRoundTrip ==
    call.io = "ok"
    => /\ json_load(file.text).ok
       /\ load_messages(plugin, file, TRUE) = _messages

C7_Witness ==
    /\ call.op = "send_message"
    /\ call.io = "ok"
    /\ Len(_messages.items) >= 2
    /\ _messages.items[1] # _messages.items[2]
    /\ load_messages(plugin, file, TRUE) = _messages

\* C8: a successful send_message(u, c, t) with max_messages >= 1 returns
\* code 0 and a message with username u, content c and type t ("text" when
\* t is left out); the message is the last of the list, and with
\* online_timeout >= 0 a get_online_users made then would return u.
C8_PostReturnsMessage ==
    [][ \A username \in PresenceUsernames, content \in PresenceContents,
           type \in PresenceTypes, outcome \in SaveOk :
          (/\ send_message_valid(username, content)
           /\ _max_messages >= 1
           /\ _online_timeout >= 0
           /\ send_message(username, content, type, outcome)
           /\ call'.raised = "")
          => /\ resp'.code = 0
             /\ resp'.data.username = username
             /\ resp'.data.content = content
             /\ resp'.data.type = (IF type = Omitted THEN "text" ELSE type)
             /\ _messages'.items # <<>>
             /\ _messages'.items[Len(_messages'.items)] = resp'.data
             /\ username \in DOMAIN clean_offline_users(_online_users', now', _online_timeout')
      ]_vars

C8_Witness ==
    /\ call.op = "send_message"
    /\ resp.code = 0
    /\ _max_messages >= 1
    /\ _online_timeout >= 0
    /\ resp.data.type = "image"
    /\ _messages.items = <<resp.data>>
    /\ call.user \in DOMAIN clean_offline_users(_online_users, now, _online_timeout)

\* a is a prefix of b
IsPrefix(a, b) == Len(a) <= Len(b) /\ a = SubSeq(b, 1, Len(a))

\* the step is a send_message or clear_messages whose save failed
SaveFailedStep == call' # call /\ call'.io \in {"open_fail", "write_fail"}

\* what the caller and the memory see of such a step: code 0, and the
\* mutation kept
SaveFailureHidden ==
    /\ resp'.code = 0
    /\ call'.raised = ""
    /\ call'.op = "clear_messages" => _messages' = PyList(<<>>)
    /\ call'.op = "send_message" =>
          _messages' = PyList(appended_messages(_messages.items, resp'.data, _max_messages))

\* C9 as claimed: when the save of send_message or clear_messages fails the
\* call returns code 0, the change in memory is kept, and the backing file
\* keeps its previous content.
C9_SaveFailureKeepsFile ==
    [][ SaveFailedStep => SaveFailureHidden /\ file' = file ]_vars

\* C9 as amended: when the save of send_message or clear_messages fails the
\* call returns code 0 and the change in memory is kept; the backing file
\* keeps its previous content when it could not be opened, and when the
\* write fails after open() has truncated it, the file exists and holds a
\* prefix of the new text, whatever it held before.
C9_SaveFailureLeavesPrefix ==
    [][ SaveFailedStep
        => /\ SaveFailureHidden
           /\ call'.io = "open_fail" => file' = file
           /\ call'.io = "write_fail" =>
                 file'.exists /\ IsPrefix(file'.text, json_dump(_messages')) ]_vars

C9_Witness ==
    /\ call.op = "send_message"
    /\ call.io = "write_fail"
    /\ resp.code = 0
    /\ _messages.items[Len(_messages.items)] = resp.data
    /\ Len(file.text) > 1
    /\ ~json_load(file.text).ok

\* C10: init_plugin leaves the empty list when the backing file does not
\* exist, cannot be read or cannot be parsed; it does not fail, and nothing
\* of the file's content is kept.
C10_LoadFailureGivesEmpty ==
    (/\ call.op = "init_plugin"
     /\ (~file.exists \/ call.io = "read_fail" \/ ~json_load(file.text).ok))
    => /\ _messages = PyList(<<>>)
       /\ call.raised = ""
       /\ _chat_data_path # None

C10_Witness ==
    /\ call.op = "init_plugin"
    /\ file.exists
    /\ Len(file.text) > 1
    /\ ~json_load(file.text).ok
    /\ _messages = PyList(<<>>)

\* a configuration value that is supplied and is not an integer
NotInteger(v) == v.t = "str" /\ ~IntParses(v)

\* a configuration value that is supplied and that init_plugin accepts
Accepted(v) == Truthy(v) /\ IntParses(v)

\* C11: after every init_plugin, also of an instance configured before, a
\* field whose supplied value is not an integer holds its default (100,
\* 300), a field whose supplied value is valid holds that value, and the
\* message list is loaded.
C11_InvalidConfigKeepsDefault ==
    [][ \A config \in LogConfigs :
          init_plugin(config, TRUE)
          => /\ NotInteger(config_get(config, "max_messages"))
                   => _max_messages' = DefaultMaxMessages
             /\ NotInteger(config_get(config, "online_timeout"))
                   => _online_timeout' = DefaultOnlineTimeout
             /\ Accepted(config_get(config, "max_messages"))
                   => _max_messages' = py_int(config_get(config, "max_messages"))
             /\ Accepted(config_get(config, "online_timeout"))
                   => _online_timeout' = py_int(config_get(config, "online_timeout"))
             /\ _chat_data_path' # None
             /\ _messages' = load_messages(plugin, file, TRUE) ]_vars

\* C12: user_heartbeat with an empty or missing username returns code 1 and
\* changes nothing; with a username it returns code 0, sets that user's
\* presence time to now, and leaves the message list, the file and every
\* other user's presence entry as they were.
C12_HeartbeatFrame ==
    [][ \A username \in PresenceUsernames :
          user_heartbeat(username)
          => IF username = None \/ username = ""
             THEN /\ resp'.code = 1
                  /\ UNCHANGED <<_messages, _online_users, file>>
             ELSE /\ resp'.code = 0
                  /\ DOMAIN _online_users' = DOMAIN _online_users \cup {username}
                  /\ _online_users'[username] = now
                  /\ \A u \in DOMAIN _online_users \ {username} :
                        _online_users'[u] = _online_users[u]
                  /\ UNCHANGED <<_messages, file>> ]_vars

C12_Witness ==
    /\ call.op = "user_heartbeat"
    /\ call.user = "alice"
    /\ resp.code = 0
    /\ "bob" \in DOMAIN _online_users
    /\ _online_users["alice"] = now
    /\ _online_users["bob"] < now
    /\ _messages.items # <<>>
    /\ file.exists

\* what get_online_users would return in the current state
OnlineNow == DOMAIN clean_offline_users(_online_users, now, _online_timeout)

\* C13: clear_messages leaves the presence map unchanged, so that
\* get_online_users returns the same users after it as before it at the
\* same instant.
C13_ClearKeepsPresence ==
    [][ \A outcome \in SaveOk :
          clear_messages(outcome)
          => /\ _online_users' = _online_users
             /\ OnlineNow' = OnlineNow ]_vars

C13_Witness ==
    /\ call.op = "clear_messages"
    /\ _messages = PyList(<<>>)
    /\ OnlineNow # {}
    /\ OnlineNow # DOMAIN _online_users

\* a required field that is missing or empty
IsMissing(x) == x = None \/ x = ""

\* the envelope: code 0 or 1, a message string, no data with code 1
Envelope(r) ==
    /\ r.code \in {0, 1}
    /\ "message" \in DOMAIN r
    /\ r.message \in STRING
    /\ r.code = 1 => "data" \notin DOMAIN r

\* C14: every response of get_messages, send_message, get_online_users,
\* user_heartbeat and clear_messages has code 0 or 1 and a message string;
\* the code is 1 exactly when a required field (username, or content for
\* send_message) is missing or empty, and then there is no data field.
C14_ResponseEnvelope ==
    [][ /\ get_messages => Envelope(resp') /\ resp'.code = 0
        /\ get_online_users => Envelope(resp') /\ resp'.code = 0
        /\ \A outcome \in SaveOk :
              clear_messages(outcome) => Envelope(resp') /\ resp'.code = 0
        /\ \A username \in LogUsernames :
              user_heartbeat(username)
              => Envelope(resp') /\ (resp'.code = 1 <=> IsMissing(username))
        /\ \A username \in LogUsernames, content \in LogContents,
              type \in LogTypes, outcome \in SaveOk :
              (send_message(username, content, type, outcome) /\ call'.raised = "")
              => /\ Envelope(resp')
                 /\ resp'.code = 1 <=> (IsMissing(username) \/ IsMissing(content))
      ]_vars

C14_Witness ==
    /\ call.op = "user_heartbeat"
    /\ resp.code = 1
    /\ DOMAIN resp = {"code", "message"}
    /\ _messages.items # <<>>

\* str.strip() of the fields drawn
Stripped(x) == IF x = " " THEN "" ELSE x

\* C15: send_message with a username or content that is empty once the
\* surrounding blanks are trimmed returns code 1 and changes no state: no
\* presence touch, no append, no write.
C15_BlankFieldsRejected ==
    [][ \A username \in InputUsernames, content \in InputContents,
           type \in InputTypes, outcome \in SaveOk :
          (/\ Stripped(username) = "" \/ Stripped(content) = ""
           /\ send_message(username, content, type, outcome))
          => /\ resp'.code = 1
             /\ UNCHANGED <<_messages, _online_users, file>> ]_vars

\* the types of the spec's data model
MessageTypes == {"text", "system"}

\* C16: every message in the list, and every message written to the file,
\* has type "text" or "system", whatever type the caller passed.
C16_TypeIsTextOrSystem ==
    /\ \A i \in 1..Len(_messages.items) : _messages.items[i].type \in MessageTypes
    /\ \A i \in 1..Len(load_messages(plugin, file, TRUE).items) :
          load_messages(plugin, file, TRUE).items[i].type \in MessageTypes

\* C17: ChatCenter and ChatroomEnhanced are observationally equivalent.  The
\* handlers of the two classes are the same text and only init_plugin reads
\* which class runs, so the two stay in step exactly when every init_plugin
\* step of one class, from the same configuration, file and read outcome,
\* leaves the message list (which get_messages returns, and send_message
\* appends to or raises on) that the other class leaves.
C17_PluginsEquivalent ==
    [][ \A config \in FileConfigs, read_ok \in BOOLEAN :
          init_plugin(config, read_ok)
          => \A p \in Plugins : load_messages(p, file, read_ok) = _messages' ]_vars

\* the messages of a list, as a set
Items(v) == {v.items[i] : i \in 1..Len(v.items)}

\* both send_message calls have returned
BothDone == \A t \in Threads : threads[t].pc = "done"

\* thread t's message is absent from the list although a message appended
\* before it (loaded from the file, or the other call's) is still there
Lost(t) ==
    /\ threads[t].m \notin Items(_messages)
    /\ \E old \in Items(_messages) :
          \/ \A u \in Threads : old # threads[u].m
          \/ \E u \in Threads : old = threads[u].m /\ threads[u].order < threads[t].order

\* C18: two send_message calls with their statements interleaved can lose an
\* update: both return code 0 and one of the two messages is absent from the
\* list although an older message was kept (the witness).  Whenever both
\* have returned, both returned code 0, and a message is lost in this way
\* only if it was appended between the other call's slice and the store of
\* that slice.
C18_LostOnlyByInterleaving ==
    BothDone
    => /\ \A t \in Threads : threads[t].code = 0
       /\ \A t \in Threads : Lost(t) => threads[t].raced

C18_Witness ==
    /\ BothDone
    /\ \A t \in Threads : threads[t].code = 0
    /\ \E t \in Threads : Lost(t)

\* a is a suffix of b
IsSuffix(a, b) == Len(a) <= Len(b) /\ a = SubSeq(b, Len(b) - Len(a) + 1, Len(b))

\* C19: for every max_messages that init_plugin has accepted, the list
\* after a successful send_message holds at most max_messages entries, and
\* they are the most recent: a suffix of the previous list with the new
\* message appended.
C19_AcceptedMaxBoundsList ==
    [][ \A username \in LogUsernames, content \in LogContents,
           type \in LogTypes, outcome \in SaveOk :
          (/\ send_message_valid(username, content)
           /\ send_message(username, content, type, outcome)
           /\ resp'.code = 0)
          => /\ Len(_messages'.items) <= _max_messages
             /\ IsSuffix(_messages'.items, Append(_messages.items, resp'.data)) ]_vars

\* C20: with calls run one at a time and every save succeeding, from
\* init_plugin on the file's text is the text of the list in memory; with no
\* file yet, the list is empty.  In particular the file a post writes holds
\* the truncated list.
C20_FileEqualsMemory ==
    _chat_data_path # None
    => IF file.exists
       THEN _messages.kind = "list" /\ file.text = json_dump(_messages)
       ELSE _messages = PyList(<<>>)

C20_Witness ==
    /\ call.op = "send_message"
    /\ call.io = "ok"
    /\ _max_messages = 2
    /\ Len(posted.seq) = 3
    /\ file.text = json_dump(PyList(<<posted.seq[2], posted.seq[3]>>))
    /\ posted.seq[3] = resp.data

\* the file holds the text of the whole list in memory
FileIsMemory == file.exists /\ file.text = json_dump(_messages)

\* C21 as claimed: the first successful save after failed saves makes the
\* file equal to the whole list in memory, the messages whose save failed
\* included; until then, loading the file gives the content it had before
\* the failed saves.
C21_StaleUntilSaved ==
    /\ history.save = "recovered" => FileIsMemory
    /\ SaveFailed(history) => load_messages(plugin, file, TRUE) = history.older

\* C21 as amended: the first successful save after failed saves makes the
\* file equal to the whole list in memory; until then, loading the file
\* gives the content it had before the failed saves if each of them failed
\* at open, and the empty list if one of them failed after open had
\* truncated the file.
C21_RecoveredBySave ==
    /\ history.save = "recovered" => FileIsMemory
    /\ history.save = "open_failed"
          => load_messages(plugin, file, TRUE) = history.older
    /\ history.save = "write_failed"
          => load_messages(plugin, file, TRUE) = PyList(<<>>)

C21_Witness ==
    /\ history.save = "recovered"
    /\ call.op = "send_message"
    /\ call.io = "ok"
    /\ history.older = PyList(OldMessages)
    /\ Len(_messages.items) = 2
    /\ _messages.items[1] \notin {OldMessages[1], OldMessages[2]}
    /\ FileIsMemory

\* C22: presence expiry is lazy.  No step other than get_online_users (and
\* the end of the process) removes an entry of the presence map or changes
\* the entry of a user it does not touch, so without get_online_users the
\* map only grows.  A touch sets the user's entry to the current time
\* whether or not an older entry of the user had expired, and
\* get_online_users reports every user whose entry has not expired.
C22_LazyExpiry ==
    /\ [](call.user # None =>
            call.user \in DOMAIN _online_users /\ _online_users[call.user] = now)
    /\ [][ get_online_users =>
             \A u \in DOMAIN _online_users :
                 now - _online_users[u] <= _online_timeout => u \in resp'.data ]_vars
    /\ [][ \/ get_online_users
           \/ Restart
           \/ \A u \in DOMAIN _online_users :
                 /\ u \in DOMAIN _online_users'
                 /\ u # call'.user => _online_users'[u] = _online_users[u] ]_vars

\* bob's heartbeat has left alice's expired entry in the map
C22_Witness ==
    /\ call.op = "user_heartbeat"
    /\ call.user = "bob"
    /\ "alice" \in DOMAIN _online_users
    /\ _online_timeout = 1
    /\ now - _online_users["alice"] > _online_timeout
    /\ _online_users["bob"] = now

\* C23: the timeout is counted from a user's latest touch.  Whenever
\* get_online_users runs, its result holds every user u whose current run of
\* touches (each at most online_timeout after the one before) began at or
\* before now and whose last touch is no more than online_timeout ago,
\* however long ago the run began.
C23_OnlineThroughRun ==
    [][ get_online_users =>
          \A u \in DOMAIN history.last :
              (history.since[u] <= now /\ now - history.last[u] <= _online_timeout)
                  => u \in resp'.data ]_vars

\* alice is reported although her first touch is more than online_timeout
\* ago: a later touch of the same run is not
C23_Witness ==
    /\ call.op = "get_online_users"
    /\ "alice" \in DOMAIN history.last
    /\ "alice" \in resp.data
    /\ _online_timeout = 1
    /\ now - history.since["alice"] > _online_timeout
    /\ history.last["alice"] > history.since["alice"]
    /\ _online_users["alice"] = history.last["alice"]

\* C24: whatever the backing file holds, the message list after
\* _load_messages is a list, and no later operation raises.
C24_LoadGivesMessageList ==
    /\ _chat_data_path # None => _messages.kind = "list"
    /\ call.raised = ""

\* C25: the presence map is empty whenever init_plugin has completed.
C25_InitResetsPresence ==
    call.op = "init_plugin" => _online_users = <<>>

\* C26: in a log that started empty, with a clock that does not go back,
\* the ids of the messages in the list are non-decreasing in list order;
\* they need not be distinct.
C26_IdsNonDecreasing ==
    (posted.valid /\ _messages.kind = "list") =>
        \A i, j \in 1..Len(_messages.items) :
            i < j => _messages.items[i].id <= _messages.items[j].id

\* three posts, two of them at the same instant: equal ids next to each
\* other, a larger one after them
C26_Witness ==
    /\ posted.valid
    /\ call.op = "send_message"
    /\ resp.code = 0
    /\ Len(_messages.items) = 3
    /\ _messages.items = posted.seq
    /\ _messages.items[1].id = _messages.items[2].id
    /\ _messages.items[2].id < _messages.items[3].id

====
